---- MODULE Spec2Model ----
(***************************************************************************)
(* Judge queue of the hackathon judging application.                       *)
(*                                                                         *)
(* The model follows src/routes/scores.js (GET /next-team, POST /submit),  *)
(* src/db/database.js (getNextTeamForJudge, assignJudgeToTeam,             *)
(* markAssignmentCompleted, getJudgeQueueStats, getJudgedTeamsByJudge,     *)
(* saveScore, incrementRound, isRoundLocked, deleteUserAccount) and, for   *)
(* the locking of teams, the helpers of src/tests/judge-queue.test.js      *)
(* (lockTeamForJudgeTest, markAssignmentCompleted).                        *)
(*                                                                         *)
(* Every HTTP request is served by an async handler; each awaited database *)
(* call is one atomic step of the handler, and steps of different          *)
(* requests interleave freely (one shared sqlite connection, no            *)
(* transaction around a handler).                                          *)
(*                                                                         *)
(* Team names are modelled by their rank in the collation order of the     *)
(* name column: team 1 sorts before team 2, and so on.                     *)
(***************************************************************************)
EXTENDS Integers, Sequences, FiniteSets, TLC

\* ---------------------------------------------------------------- bounds
MaxJudges == 2
MaxTeams == 2
MaxRound == 2
MaxWorkers == 3
MaxRequired == 2
MaxRequests == 2
MaxAttempts == 1
MaxLoad == 3

Judges == 1..MaxJudges
TeamNames == 1..MaxTeams
Rounds == 1..MaxRound
Workers == 1..MaxWorkers

\* null result of getNextTeamForJudge / no team held by a handler
NoTeam == 0

VARIABLES
  users,                  \* emails of the judge accounts in table users
  teams,                  \* names in table teams
  requiredJudgesPerTeam,  \* parseInt(process.env.JUDGES_PER_TEAM || '2', 10)
  current_round,          \* event_settings.current_round
  locked_rounds,          \* event_settings.locked_rounds
  judging_locked,         \* event_settings.judging_locked
  judge_team_assignments, \* rows of table judge_team_assignments
  scores,                 \* rows of table scores, by their unique key
  pc,                     \* position of each request handler
  judgeEmail,             \* req.session.user.email of the request served
  round,                  \* round / roundNum of the request served
  teamName,               \* nextTeam.name (GET /next-team) or req.body.teamName (POST /submit)
  judgedTeamNames,        \* judgedTeamNames read by getNextTeamForJudge
  response,               \* the answer most recently sent by the server
  started,                \* number of requests received so far
  locked_at,              \* keys of the rows whose locked_at IS NOT NULL (test database)
  transaction,            \* <<>> or the state the open transaction rolls back to
  attempt,                \* attempt of each lockTeamForJudgeTest call
  lockCheck,              \* lockCheck read back by each lockTeamForJudgeTest call
  lockResults             \* what each lockTeamForJudgeTest call resolved with

vars == <<users, teams, requiredJudgesPerTeam, current_round, locked_rounds,
          judging_locked, judge_team_assignments, scores, pc, judgeEmail,
          round, teamName, judgedTeamNames, response, started,
          locked_at, transaction, attempt, lockCheck, lockResults>>

\* what the judge queue and the score entry only read
settings == <<users, teams, requiredJudgesPerTeam, current_round, locked_rounds,
              judging_locked>>
locals == <<judgeEmail, round, teamName, judgedTeamNames>>
\* the locked_at column and the lock calls of the test database
locking == <<locked_at, transaction, attempt, lockCheck, lockResults>>

\* ------------------------------------------------------ table operations

\* a row of judge_team_assignments; UNIQUE(judge_email, team_name, round)
AssignmentRow(j, t, r, c) ==
  [judge_email |-> j, team_name |-> t, round |-> r, completed |-> c]

\* a row of scores reduced to its unique key (judge_email, team_name, round)
ScoreRow(j, t, r) == [judge_email |-> j, team_name |-> t, round |-> r]

\* unique key of an assignment row
KeyOf(x) == <<x.judge_email, x.team_name, x.round>>

HasAssignment(rows, j, t, r) ==
  \E x \in rows : x.judge_email = j /\ x.team_name = t /\ x.round = r

\* INSERT OR IGNORE INTO judge_team_assignments (...) VALUES (?, ?, ?, 0)
assignJudgeToTeam(rows, j, t, r) ==
  IF HasAssignment(rows, j, t, r) THEN rows
  ELSE rows \cup {AssignmentRow(j, t, r, 0)}

\* a completion that creates the row when the judge has none
markAssignmentCompleted_Upsert(rows, j, t, r) ==
  { x \in rows : ~(x.judge_email = j /\ x.team_name = t /\ x.round = r) }
    \cup {[judge_email |-> j, team_name |-> t, round |-> r, completed |-> 1]}

\* an update that flips the completed flag
markAssignmentCompleted_Toggle(rows, j, t, r) ==
  { IF x.judge_email = j /\ x.team_name = t /\ x.round = r
      THEN [x EXCEPT !.completed = 1 - x.completed] ELSE x : x \in rows }

\* UPDATE judge_team_assignments SET completed = 1 WHERE judge, team, round
markAssignmentCompleted(rows, j, t, r) ==
  { IF x.judge_email = j /\ x.team_name = t /\ x.round = r
      THEN [x EXCEPT !.completed = 1] ELSE x : x \in rows }

\* INSERT INTO scores ... ON CONFLICT(judge_email, team_name, round) DO UPDATE
saveScore(rows, j, t, r) == rows \cup {ScoreRow(j, t, r)}

\* the team names of the judge's completed rows only
getJudgedTeamsByJudge_Completed(rows, j) ==
  { x.team_name : x \in { y \in rows : y.judge_email = j /\ y.completed = 1 } }

\* SELECT jta.team_name ... WHERE jta.judge_email = ?  (team names of the rows)
getJudgedTeamsByJudge(rows, j) ==
  { x.team_name : x \in { y \in rows : y.judge_email = j } }

\* SELECT DISTINCT team_name FROM judge_team_assignments WHERE judge_email = ?
JudgedTeamsQuery(rows, j) ==
  { x.team_name : x \in { y \in rows : y.judge_email = j } }

\* SELECT team_name, COUNT(*) judge_count, SUM(judge_email = ?) already_assigned
\*   FROM judge_team_assignments WHERE round = ? GROUP BY team_name
TeamCountsQuery(rows, j, r) ==
  LET inRound == { x \in rows : x.round = r }
      names == { x.team_name : x \in inRound }
  IN [ t \in names |->
        [ judge_count |-> Cardinality({ x \in inRound : x.team_name = t }),
          already_assigned |->
            Cardinality({ x \in inRound : x.team_name = t /\ x.judge_email = j }) ] ]

\* a teams query that falls back to a placeholder team when none is registered
TeamsQuery_Placeholder(S) ==
  IF S = {} THEN <<1>>
  ELSE [ i \in 1..Cardinality(S) |->
         CHOOSE x \in S : Cardinality({ y \in S : y < x }) = i - 1 ]

\* SELECT name FROM teams ORDER BY name
RECURSIVE TeamsQuery(_)
TeamsQuery(S) ==
  IF S = {} THEN <<>>
  ELSE LET m == CHOOSE x \in S : \A y \in S : x <= y
       IN <<m>> \o TeamsQuery(S \ {m})

\* a comparator that breaks ties by name in the opposite direction
Compare_NameDescending(a, b) ==
  IF a.judge_count # b.judge_count THEN a.judge_count - b.judge_count
  ELSE b.name - a.name

\* a comparator that orders by name alone
Compare_NameOnly(a, b) == a.name - b.name

\* comparator of availableTeams.sort: judge_count first, then name.localeCompare
Compare(a, b) ==
  IF a.judge_count # b.judge_count THEN a.judge_count - b.judge_count
  ELSE a.name - b.name

\* Array.prototype.sort with the comparator above (stable)
RECURSIVE InsertSorted(_, _)
InsertSorted(s, e) ==
  IF s = <<>> THEN <<e>>
  ELSE IF Compare(e, Head(s)) < 0 THEN <<e>> \o s
  ELSE <<Head(s)>> \o InsertSorted(Tail(s), e)

RECURSIVE SortTeams(_)
SortTeams(s) ==
  IF s = <<>> THEN <<>>
  ELSE InsertSorted(SortTeams(SubSeq(s, 1, Len(s) - 1)), s[Len(s)])

\* a filter that forgets the teams the judge judged in other rounds
KeepTeam_ForgetsJudged(t, judged, alreadyAssignedSet, currentJudgeCount, required) ==
  /\ t \notin alreadyAssignedSet
  /\ ~(currentJudgeCount >= required)

\* a filter that lets full teams through
KeepTeam_IgnoresCapacity(t, judged, alreadyAssignedSet, currentJudgeCount, required) ==
  /\ t \notin judged
  /\ t \notin alreadyAssignedSet

\* filter callback of availableTeams: never judged, not assigned in this
\* round, still needs judges
KeepTeam(t, judged, alreadyAssignedSet, currentJudgeCount, required) ==
  /\ t \notin judged
  /\ t \notin alreadyAssignedSet
  /\ ~(currentJudgeCount >= required)

\* body of the innermost callback of getNextTeamForJudge: filter, map, sort, first
SelectNextTeam(teamList, judged, teamCounts, required) ==
  LET teamCountMap(t) ==
        IF t \in DOMAIN teamCounts THEN teamCounts[t].judge_count ELSE 0
      alreadyAssignedSet ==
        { t \in DOMAIN teamCounts : teamCounts[t].already_assigned > 0 }
      Keep(t) == KeepTeam(t, judged, alreadyAssignedSet, teamCountMap(t), required)
      filtered == SelectSeq(teamList, Keep)
      mapped == [ i \in 1..Len(filtered) |->
                   [name |-> filtered[i], judge_count |-> teamCountMap(filtered[i])] ]
      availableTeams == SortTeams(mapped)
  IN IF Len(availableTeams) = 0 THEN NoTeam ELSE availableTeams[1].name

\* getNextTeamForJudge run against one state of the tables
getNextTeamForJudge(j, r) ==
  SelectNextTeam(TeamsQuery(teams),
                 JudgedTeamsQuery(judge_team_assignments, j),
                 TeamCountsQuery(judge_team_assignments, j, r),
                 requiredJudgesPerTeam)

\* SELECT t.name, COUNT(DISTINCT jta.judge_email) judge_count FROM teams t
\*   LEFT JOIN judge_team_assignments jta ON t.name = jta.team_name AND jta.round = ?
getJudgeQueueStats(r) ==
  [ t \in teams |->
      Cardinality({ x.judge_email :
        x \in { y \in judge_team_assignments : y.team_name = t /\ y.round = r } }) ]

\* a completeness test satisfied by one full team
allTeamsComplete_Some(r) ==
  \E t \in teams : getJudgeQueueStats(r)[t] >= requiredJudgesPerTeam

\* queueStats.every(t => t.judge_count >= requiredJudgesPerTeam)
allTeamsComplete(r) ==
  \A t \in teams : getJudgeQueueStats(r)[t] >= requiredJudgesPerTeam

\* lockedRounds.includes(round)
isRoundLocked(r) == r \in locked_rounds

\* ------------------------------------------------------------------ Init

Init ==
  /\ users = Judges
  /\ teams \in { 1..n : n \in 0..MaxTeams }
  /\ requiredJudgesPerTeam \in 1..MaxRequired
  /\ current_round = 1
  /\ locked_rounds = {}
  /\ judging_locked \in BOOLEAN
  /\ judge_team_assignments = {}
  /\ scores = {}
  /\ pc = [w \in Workers |-> "idle"]
  /\ judgeEmail = [w \in Workers |-> 0]
  /\ round = [w \in Workers |-> 0]
  /\ teamName = [w \in Workers |-> NoTeam]
  /\ judgedTeamNames = [w \in Workers |-> {}]
  /\ response = "none"
  /\ started = 0
  /\ locked_at = {}
  /\ transaction = <<>>
  /\ attempt = [w \in Workers |-> 0]
  /\ lockCheck = [w \in Workers |-> FALSE]
  /\ lockResults = [w \in Workers |-> "none"]

\* the handler answers and forgets its request
Finish(w, answer) ==
  /\ pc' = [pc EXCEPT ![w] = "idle"]
  /\ response' = answer
  /\ judgeEmail' = [judgeEmail EXCEPT ![w] = 0]
  /\ round' = [round EXCEPT ![w] = 0]
  /\ teamName' = [teamName EXCEPT ![w] = NoTeam]
  /\ judgedTeamNames' = [judgedTeamNames EXCEPT ![w] = {}]

\* ------------------------------------------------------- GET /next-team

\* request arrives; getEventSettings; judging_locked check; round is fixed
NextTeamSettings(w, j) ==
  /\ pc[w] = "idle"
  /\ IF judging_locked
       THEN /\ response' = "judging_locked"
            /\ UNCHANGED <<pc, locals>>
       ELSE /\ pc' = [pc EXCEPT ![w] = "judged"]
            /\ judgeEmail' = [judgeEmail EXCEPT ![w] = j]
            /\ round' = [round EXCEPT ![w] = current_round]
            /\ UNCHANGED <<teamName, judgedTeamNames, response>>
  /\ UNCHANGED <<locking, settings, judge_team_assignments, scores>>

\* getNextTeamForJudge: teams query and the judge's ever-judged teams query
NextTeamJudged(w) ==
  /\ pc[w] = "judged"
  /\ judgedTeamNames' = [judgedTeamNames EXCEPT ![w] =
       JudgedTeamsQuery(judge_team_assignments, judgeEmail[w])]
  /\ pc' = [pc EXCEPT ![w] = "counts"]
  /\ UNCHANGED <<locking, settings, judge_team_assignments, scores, judgeEmail, round,
                 teamName, response>>

\* a selector that claims the team it selects
NextTeamCounts_Assigning(w) ==
  /\ pc[w] = "counts"
  /\ LET next == SelectNextTeam(TeamsQuery(teams), judgedTeamNames[w],
                   TeamCountsQuery(judge_team_assignments, judgeEmail[w], round[w]),
                   requiredJudgesPerTeam)
     IN /\ teamName' = [teamName EXCEPT ![w] = next]
        /\ pc' = [pc EXCEPT ![w] = IF next = NoTeam THEN "stats" ELSE "doublecheck"]
        /\ judge_team_assignments' =
             IF next = NoTeam THEN judge_team_assignments
             ELSE assignJudgeToTeam(judge_team_assignments, judgeEmail[w], next, round[w])
  /\ UNCHANGED <<locking, settings, scores, judgeEmail, round, judgedTeamNames, response>>

\* getNextTeamForJudge: per-team counts query, then the selection
NextTeamCounts(w) ==
  /\ pc[w] = "counts"
  /\ LET next == SelectNextTeam(TeamsQuery(teams), judgedTeamNames[w],
                   TeamCountsQuery(judge_team_assignments, judgeEmail[w], round[w]),
                   requiredJudgesPerTeam)
     IN /\ teamName' = [teamName EXCEPT ![w] = next]
        /\ pc' = [pc EXCEPT ![w] = IF next = NoTeam THEN "stats" ELSE "doublecheck"]
  /\ UNCHANGED <<locking, settings, judge_team_assignments, scores, judgeEmail, round,
                 judgedTeamNames, response>>

\* no candidate: getJudgeQueueStats tells all_complete from no_more_for_you
NextTeamStats(w) ==
  /\ pc[w] = "stats"
  /\ Finish(w, IF allTeamsComplete(round[w]) THEN "all_complete" ELSE "no_more_for_you")
  /\ UNCHANGED <<locking, settings, judge_team_assignments, scores>>

\* double-check with getJudgedTeamsByJudge
NextTeamDoubleCheck(w) ==
  /\ pc[w] = "doublecheck"
  /\ IF teamName[w] \in getJudgedTeamsByJudge(judge_team_assignments, judgeEmail[w])
       THEN Finish(w, "duplicate_assignment")
       ELSE /\ pc' = [pc EXCEPT ![w] = "assign"]
            /\ UNCHANGED <<locals, response>>
  /\ UNCHANGED <<locking, settings, judge_team_assignments, scores>>

\* assignJudgeToTeam, then redirect to the score entry of the team
NextTeamAssign(w) ==
  /\ pc[w] = "assign"
  /\ judge_team_assignments' =
       assignJudgeToTeam(judge_team_assignments, judgeEmail[w], teamName[w], round[w])
  /\ Finish(w, "assigned")
  /\ UNCHANGED <<locking, settings, scores>>

\* --------------------------------------------------------- POST /submit

\* request arrives; getEventSettings; judging_locked check; body validation
SubmitSettings(w, j, t, r, valid) ==
  /\ pc[w] = "idle"
  /\ IF judging_locked
       THEN /\ response' = "judging_locked"
            /\ UNCHANGED <<pc, locals>>
       ELSE IF ~valid
         THEN /\ response' = "invalid_score"
              /\ UNCHANGED <<pc, locals>>
         ELSE /\ pc' = [pc EXCEPT ![w] = "roundlock"]
              /\ judgeEmail' = [judgeEmail EXCEPT ![w] = j]
              /\ round' = [round EXCEPT ![w] = r]
              /\ teamName' = [teamName EXCEPT ![w] = t]
              /\ UNCHANGED <<judgedTeamNames, response>>
  /\ UNCHANGED <<locking, settings, judge_team_assignments, scores>>

\* isRoundLocked(roundNum), then the profanity check of the notes
SubmitRoundLock(w, notesError) ==
  /\ pc[w] = "roundlock"
  /\ IF isRoundLocked(round[w]) THEN Finish(w, "round_locked")
     ELSE IF notesError THEN Finish(w, "notes_error")
     ELSE /\ pc' = [pc EXCEPT ![w] = "save"]
          /\ UNCHANGED <<locals, response>>
  /\ UNCHANGED <<locking, settings, judge_team_assignments, scores>>

\* a handler that goes on to markAssignmentCompleted without the score
SubmitSaveScore_Skipped(w) ==
  /\ pc[w] = "save"
  /\ pc' = [pc EXCEPT ![w] = "mark"]
  /\ UNCHANGED <<locking, settings, judge_team_assignments, scores, locals, response>>

\* db.saveScore
SubmitSaveScore(w) ==
  /\ pc[w] = "save"
  /\ scores' = saveScore(scores, judgeEmail[w], teamName[w], round[w])
  /\ pc' = [pc EXCEPT ![w] = "mark"]
  /\ UNCHANGED <<locking, settings, judge_team_assignments, locals, response>>

\* db.markAssignmentCompleted, then the redirect
SubmitMarkCompleted(w) ==
  /\ pc[w] = "mark"
  /\ judge_team_assignments' =
       markAssignmentCompleted(judge_team_assignments, judgeEmail[w], teamName[w], round[w])
  /\ Finish(w, "submitted")
  /\ UNCHANGED <<locking, settings, scores>>

\* ---------------------------------------------------------------- admin

\* incrementRound: lock the current round and move to the next one
incrementRound ==
  /\ current_round < MaxRound
  /\ locked_rounds' = locked_rounds \cup {current_round}
  /\ current_round' = current_round + 1
  /\ UNCHANGED <<users, teams, requiredJudgesPerTeam, judging_locked,
                 judge_team_assignments, scores, pc, locals, response, locking>>

\* DELETE FROM judge_team_assignments WHERE judge_email = ?
DeleteAssignmentsOf(rows, email) == { x \in rows : x.judge_email # email }

\* POST /account/delete -> deleteUserAccount: the judge's assignment rows and
\* the account go in one transaction; the scores are kept
deleteUserAccount(email) ==
  /\ email \in users
  /\ judge_team_assignments' = DeleteAssignmentsOf(judge_team_assignments, email)
  /\ users' = users \ {email}
  /\ UNCHANGED <<teams, requiredJudgesPerTeam, current_round, locked_rounds,
                 judging_locked, scores, pc, locals, response, locking>>

\* a request of judge j, who is logged in, is received by the server and given
\* the first free handler; judges are numbered in the order of their first
\* request
Receive(w, j) ==
  /\ started < MaxRequests
  /\ started' = started + 1
  /\ \A v \in Workers : pc[v] = "idle" => w <= v
  /\ j <= started + 1
  /\ j \in users

Next ==
  \/ \E w \in Workers, j \in Judges : Receive(w, j) /\ NextTeamSettings(w, j)
  \/ \E w \in Workers : NextTeamJudged(w) /\ UNCHANGED started
  \/ \E w \in Workers : NextTeamCounts(w) /\ UNCHANGED started
  \/ \E w \in Workers : NextTeamStats(w) /\ UNCHANGED started
  \/ \E w \in Workers : NextTeamDoubleCheck(w) /\ UNCHANGED started
  \/ \E w \in Workers : NextTeamAssign(w) /\ UNCHANGED started
  \/ \E w \in Workers, j \in Judges, t \in teams, r \in Rounds, valid \in BOOLEAN :
       Receive(w, j) /\ SubmitSettings(w, j, t, r, valid)
  \/ \E w \in Workers, notesError \in BOOLEAN : SubmitRoundLock(w, notesError) /\ UNCHANGED started
  \/ \E w \in Workers : SubmitSaveScore(w) /\ UNCHANGED started
  \/ \E w \in Workers : SubmitMarkCompleted(w) /\ UNCHANGED started
  \/ incrementRound /\ UNCHANGED started
  \/ \E j \in Judges : deleteUserAccount(j) /\ UNCHANGED started

Spec == Init /\ [][Next]_vars

\* ------------------------------------------- judging locked and unlocked

\* POST /admin/judging/lock -> setJudgingLocked(locked): one UPDATE of
\* event_settings
setJudgingLocked(locked) ==
  /\ judging_locked' = locked
  /\ UNCHANGED <<users, teams, requiredJudgesPerTeam, current_round, locked_rounds,
                 judge_team_assignments, scores, pc, locals, response, locking>>

\* the requests of the judges in one round beside an admin who locks and
\* unlocks judging
NextJudgingLock ==
  \/ \E w \in Workers, j \in Judges : Receive(w, j) /\ NextTeamSettings(w, j)
  \/ \E w \in Workers : NextTeamJudged(w) /\ UNCHANGED started
  \/ \E w \in Workers : NextTeamCounts(w) /\ UNCHANGED started
  \/ \E w \in Workers : NextTeamStats(w) /\ UNCHANGED started
  \/ \E w \in Workers : NextTeamDoubleCheck(w) /\ UNCHANGED started
  \/ \E w \in Workers : NextTeamAssign(w) /\ UNCHANGED started
  \/ \E w \in Workers, j \in Judges, t \in teams, valid \in BOOLEAN :
       Receive(w, j) /\ SubmitSettings(w, j, t, current_round, valid)
  \/ \E w \in Workers, notesError \in BOOLEAN : SubmitRoundLock(w, notesError) /\ UNCHANGED started
  \/ \E w \in Workers : SubmitSaveScore(w) /\ UNCHANGED started
  \/ \E w \in Workers : SubmitMarkCompleted(w) /\ UNCHANGED started
  \/ \E locked \in BOOLEAN : setJudgingLocked(locked) /\ UNCHANGED started

SpecJudgingLock == Init /\ [][NextJudgingLock]_vars

\* ------------------------------------------------ the queue requests alone

\* GET /next-team requests and round advances; POST /submit is left out: it
\* writes only scores and the completed flag, which no step below reads
NextAssign ==
  \/ \E w \in Workers, j \in Judges : Receive(w, j) /\ NextTeamSettings(w, j)
  \/ \E w \in Workers : NextTeamJudged(w) /\ UNCHANGED started
  \/ \E w \in Workers : NextTeamCounts(w) /\ UNCHANGED started
  \/ \E w \in Workers : NextTeamStats(w) /\ UNCHANGED started
  \/ \E w \in Workers : NextTeamDoubleCheck(w) /\ UNCHANGED started
  \/ \E w \in Workers : NextTeamAssign(w) /\ UNCHANGED started
  \/ incrementRound /\ UNCHANGED started

SpecAssign == Init /\ [][NextAssign]_vars

\* ------------------------------------------- one round run to completion

\* judges with a browser session of their own: handler j serves judge j
QueueJudges == Judges \cap Workers

InitQueue ==
  /\ Init
  /\ judging_locked = FALSE
  /\ Cardinality(QueueJudges) >= requiredJudgesPerTeam

\* the judge submits the score of a team the queue gave them
SubmitAssigned(j) ==
  \E x \in judge_team_assignments, valid \in BOOLEAN :
    /\ x.judge_email = j
    /\ x.completed = 0
    /\ SubmitSettings(j, j, x.team_name, x.round, valid)

JudgeStep(j) ==
  \/ NextTeamJudged(j)
  \/ NextTeamCounts(j)
  \/ NextTeamStats(j)
  \/ NextTeamDoubleCheck(j)
  \/ NextTeamAssign(j)
  \/ \E notesError \in BOOLEAN : SubmitRoundLock(j, notesError)
  \/ SubmitSaveScore(j)
  \/ SubmitMarkCompleted(j)

NextQueue ==
  \/ \E j \in QueueJudges : NextTeamSettings(j, j) /\ UNCHANGED started
  \/ \E j \in QueueJudges : SubmitAssigned(j) /\ UNCHANGED started
  \/ \E j \in QueueJudges : JudgeStep(j) /\ UNCHANGED started

\* every judge keeps requesting; the event loop runs every pending callback
SpecQueue ==
  /\ InitQueue
  /\ [][NextQueue]_vars
  /\ \A j \in QueueJudges : SF_vars(NextTeamSettings(j, j) /\ UNCHANGED started)
  /\ \A j \in QueueJudges : WF_vars(JudgeStep(j) /\ UNCHANGED started)

\* ------------------------------------------ requests made one after another

InitSequential ==
  /\ Init
  /\ judging_locked = FALSE

\* the judges call GET /next-team one at a time, each call awaited before
\* the next one; judges may delete their account between the steps
NextSequential ==
  \/ \E j \in users :
       /\ \A w \in Workers : pc[w] = "idle"
       /\ NextTeamSettings(1, j)
       /\ UNCHANGED started
  \/ NextTeamJudged(1) /\ UNCHANGED started
  \/ NextTeamCounts(1) /\ UNCHANGED started
  \/ NextTeamStats(1) /\ UNCHANGED started
  \/ NextTeamDoubleCheck(1) /\ UNCHANGED started
  \/ NextTeamAssign(1) /\ UNCHANGED started
  \/ \E j \in Judges : deleteUserAccount(j) /\ UNCHANGED started

SpecSequential == InitSequential /\ [][NextSequential]_vars

\* ------------------------------------------- the load of one round

\* one round of an event with up to MaxLoad judges and up to MaxLoad judges
\* required per team, from an empty table
InitBalance ==
  /\ users = 1..MaxLoad
  /\ teams \in { 1..n : n \in 1..MaxTeams }
  /\ requiredJudgesPerTeam \in 1..MaxLoad
  /\ current_round = 1
  /\ locked_rounds = {}
  /\ judging_locked = FALSE
  /\ judge_team_assignments = {}
  /\ scores = {}
  /\ pc = [w \in Workers |-> "idle"]
  /\ judgeEmail = [w \in Workers |-> 0]
  /\ round = [w \in Workers |-> 0]
  /\ teamName = [w \in Workers |-> NoTeam]
  /\ judgedTeamNames = [w \in Workers |-> {}]
  /\ response = "none"
  /\ started = 0
  /\ locked_at = {}
  /\ transaction = <<>>
  /\ attempt = [w \in Workers |-> 0]
  /\ lockCheck = [w \in Workers |-> FALSE]
  /\ lockResults = [w \in Workers |-> "none"]

\* the judges call GET /next-team one at a time, each call awaited before
\* the next one
NextBalance ==
  \/ \E j \in users :
       /\ \A w \in Workers : pc[w] = "idle"
       /\ NextTeamSettings(1, j)
       /\ UNCHANGED started
  \/ NextTeamJudged(1) /\ UNCHANGED started
  \/ NextTeamCounts(1) /\ UNCHANGED started
  \/ NextTeamStats(1) /\ UNCHANGED started
  \/ NextTeamDoubleCheck(1) /\ UNCHANGED started
  \/ NextTeamAssign(1) /\ UNCHANGED started

SpecBalance == InitBalance /\ [][NextBalance]_vars

\* ------------------------------------------- score entry against the queue

\* the effect of a GET /next-team that ends with an assignment, taken as one
\* step: assignJudgeToTeam for the round of the request.  Its checks are
\* reads made before the insert, so with requests in flight together any
\* team can be inserted for any judge (C1, C2).
QueueInsert(j, t) ==
  /\ ~judging_locked
  /\ started < MaxRequests
  /\ started' = started + 1
  /\ j \in users
  /\ j <= started + 1
  /\ t \in teams
  /\ judge_team_assignments' =
       assignJudgeToTeam(judge_team_assignments, j, t, current_round)
  /\ response' = "assigned"
  /\ UNCHANGED <<locking, settings, scores, pc, locals>>

\* POST /submit for any judge, team and round, beside the inserts of the
\* queue and the round advances of the admin
NextComplete ==
  \/ \E j \in Judges, t \in TeamNames : QueueInsert(j, t)
  \/ \E j \in Judges, t \in teams, r \in Rounds, valid \in BOOLEAN :
       Receive(1, j) /\ SubmitSettings(1, j, t, r, valid)
  \/ \E notesError \in BOOLEAN : SubmitRoundLock(1, notesError) /\ UNCHANGED started
  \/ SubmitSaveScore(1) /\ UNCHANGED started
  \/ SubmitMarkCompleted(1) /\ UNCHANGED started
  \/ incrementRound /\ UNCHANGED started

SpecComplete == Init /\ [][NextComplete]_vars

\* ------------------------------------------- score entries in flight together

\* db.saveScore rejects: POST /submit goes to its catch and renders the error
\* page; markAssignmentCompleted is not called
SubmitSaveFails(w) ==
  /\ pc[w] = "save"
  /\ Finish(w, "submit_failed")
  /\ UNCHANGED <<locking, settings, judge_team_assignments, scores>>

\* POST /submit requests of any judges for the round of the queue, in flight
\* together, beside the inserts of the queue and judges who delete their
\* account
NextScore ==
  \/ \E j \in Judges, t \in TeamNames : QueueInsert(j, t)
  \/ \E w \in Workers, j \in Judges, t \in teams, valid \in BOOLEAN :
       Receive(w, j) /\ SubmitSettings(w, j, t, current_round, valid)
  \/ \E w \in Workers, notesError \in BOOLEAN : SubmitRoundLock(w, notesError) /\ UNCHANGED started
  \/ \E w \in Workers : SubmitSaveScore(w) /\ UNCHANGED started
  \/ \E w \in Workers : SubmitSaveFails(w) /\ UNCHANGED started
  \/ \E w \in Workers : SubmitMarkCompleted(w) /\ UNCHANGED started
  \/ \E j \in Judges : deleteUserAccount(j) /\ UNCHANGED started

SpecScore == Init /\ [][NextScore]_vars

\* ------------------------------------------------- one judge on their own

\* the only judge of the event, served by one handler at a time
SingleJudge == 1

InitSingle ==
  /\ Init
  /\ judging_locked = FALSE
  /\ teams # {}

\* the judge enters or edits the score of a team the queue gave them
SubmitOwn(j) ==
  \E x \in judge_team_assignments, valid \in BOOLEAN :
    /\ x.judge_email = j
    /\ SubmitSettings(j, j, x.team_name, x.round, valid)

\* the judge asks for the next team, or submits the score of a team the queue
\* gave them; each call is awaited before the next one is made
NextSingle ==
  \/ NextTeamSettings(SingleJudge, SingleJudge) /\ UNCHANGED started
  \/ SubmitOwn(SingleJudge) /\ UNCHANGED started
  \/ JudgeStep(SingleJudge) /\ UNCHANGED started

SpecSingle == InitSingle /\ [][NextSingle]_vars

\* ------------------------------------------- the lock calls of the tests

\* lockTeamForJudgeTest(judgeEmail, teamName, round, retries = 10)
retries == 10

\* SELECT COUNT(*) FROM judge_team_assignments WHERE team_name = ? AND round = ?
judge_count(rows, t, r) ==
  Cardinality({ x \in rows : x.team_name = t /\ x.round = r })

\* rows of (team, round) with completed = 0 AND locked_at IS NOT NULL
ActiveLocks(rows, locked, t, r) ==
  { x \in rows : /\ x.team_name = t
                 /\ x.round = r
                 /\ x.completed = 0
                 /\ KeyOf(x) \in locked }

\* a lock check without AND judge_email != ?
existingLock_CountsOwn(rows, locked, j, t, r) ==
  ActiveLocks(rows, locked, t, r) # {}

\* SELECT judge_email ... AND completed = 0 AND locked_at IS NOT NULL
\*   AND judge_email != ? LIMIT 1
existingLock(rows, locked, j, t, r) ==
  \E x \in ActiveLocks(rows, locked, t, r) : x.judge_email # j

\* INSERT ... VALUES (?, ?, ?, 0, CURRENT_TIMESTAMP) ON CONFLICT(judge_email,
\* team_name, round) DO UPDATE SET locked_at = CURRENT_TIMESTAMP
\* WHERE completed = 0 AND locked_at IS NULL: the locked_at column after it
LockedAtAfterUpsert(rows, locked, j, t, r) ==
  IF \/ ~HasAssignment(rows, j, t, r)
     \/ AssignmentRow(j, t, r, 0) \in rows
    THEN locked \cup {<<j, t, r>>}
    ELSE locked

\* the call is answered and forgotten
LockFinish(w, answer) ==
  /\ Finish(w, answer)
  /\ attempt' = [attempt EXCEPT ![w] = 0]
  /\ lockCheck' = [lockCheck EXCEPT ![w] = FALSE]
  /\ lockResults' = [lockResults EXCEPT ![w] = answer]

\* the call is answered with a refusal while its ROLLBACK is still queued
LockRefuse(w, answer) ==
  /\ pc' = [pc EXCEPT ![w] = "rollback"]
  /\ response' = answer
  /\ lockResults' = [lockResults EXCEPT ![w] = answer]
  /\ UNCHANGED <<locals, attempt, lockCheck>>

\* ROLLBACK is queued and attemptLock(attempt + 1) is set on a timer
LockRetry(w) ==
  /\ attempt' = [attempt EXCEPT ![w] = @ + 1]
  /\ pc' = [pc EXCEPT ![w] = "retry"]
  /\ UNCHANGED <<locals, lockCheck, response, lockResults>>

\* lockTeamForJudgeTest(j, t, round) is called
LockCall(w, j, t) ==
  /\ pc[w] = "idle"
  /\ pc' = [pc EXCEPT ![w] = "begin"]
  /\ judgeEmail' = [judgeEmail EXCEPT ![w] = j]
  /\ teamName' = [teamName EXCEPT ![w] = t]
  /\ round' = [round EXCEPT ![w] = current_round]
  /\ lockResults' = [lockResults EXCEPT ![w] = "none"]
  /\ UNCHANGED <<settings, judge_team_assignments, scores, judgedTeamNames,
                 response, locked_at, transaction, attempt, lockCheck>>

\* BEGIN IMMEDIATE TRANSACTION on the connection all calls share: it fails
\* when a transaction is open already
LockBegin(w) ==
  /\ pc[w] = "begin"
  /\ IF transaction # <<>>
       THEN /\ IF attempt[w] < retries
                 THEN LockRetry(w)
                 ELSE LockFinish(w, "lock_error")
            /\ UNCHANGED transaction
       ELSE /\ transaction' =
                 <<[rows |-> judge_team_assignments, locked |-> locked_at]>>
            /\ pc' = [pc EXCEPT ![w] = "count"]
            /\ UNCHANGED <<locals, attempt, lockCheck, response, lockResults>>
  /\ UNCHANGED <<settings, judge_team_assignments, scores, locked_at>>

\* a count step that lets a full team through, as lockTeamForJudgeTestDb
\* does by having no count at all
LockCount_Unchecked(w) ==
  /\ pc[w] \in {"count", "recount"}
  /\ pc' = [pc EXCEPT ![w] = IF pc[w] = "count" THEN "lockcheck" ELSE "upsert"]
  /\ UNCHANGED <<locals, attempt, lockCheck, response, lockResults>>
  /\ UNCHANGED <<settings, judge_team_assignments, scores, locked_at, transaction>>

\* the two counts of the judges of the team, before and after the lock check
LockCount(w) ==
  /\ pc[w] \in {"count", "recount"}
  /\ IF judge_count(judge_team_assignments, teamName[w], round[w])
          >= requiredJudgesPerTeam
       THEN LockRefuse(w, "team_full")
       ELSE /\ pc' = [pc EXCEPT ![w] = IF pc[w] = "count" THEN "lockcheck" ELSE "upsert"]
            /\ UNCHANGED <<locals, attempt, lockCheck, response, lockResults>>
  /\ UNCHANGED <<settings, judge_team_assignments, scores, locked_at, transaction>>

\* is the team locked by another judge
LockCheckOther(w) ==
  /\ pc[w] = "lockcheck"
  /\ IF existingLock(judge_team_assignments, locked_at,
                     judgeEmail[w], teamName[w], round[w])
       THEN LockRefuse(w, "already_locked")
       ELSE /\ pc' = [pc EXCEPT ![w] = "recount"]
            /\ UNCHANGED <<locals, attempt, lockCheck, response, lockResults>>
  /\ UNCHANGED <<settings, judge_team_assignments, scores, locked_at, transaction>>

\* insert or update the assignment with the lock
LockUpsert(w) ==
  /\ pc[w] = "upsert"
  /\ judge_team_assignments' =
       assignJudgeToTeam(judge_team_assignments, judgeEmail[w], teamName[w], round[w])
  /\ locked_at' = LockedAtAfterUpsert(judge_team_assignments, locked_at,
                                      judgeEmail[w], teamName[w], round[w])
  /\ pc' = [pc EXCEPT ![w] = "readback"]
  /\ UNCHANGED <<settings, scores, locals, response, transaction, attempt,
                 lockCheck, lockResults>>

\* verify the lock was set
LockReadBack(w) ==
  /\ pc[w] = "readback"
  /\ lockCheck' = [lockCheck EXCEPT ![w] =
       /\ AssignmentRow(judgeEmail[w], teamName[w], round[w], 0) \in judge_team_assignments
       /\ <<judgeEmail[w], teamName[w], round[w]>> \in locked_at]
  /\ pc' = [pc EXCEPT ![w] = "commit"]
  /\ UNCHANGED <<settings, judge_team_assignments, scores, locals, response,
                 locked_at, transaction, attempt, lockResults>>

\* COMMIT: it fails when no transaction is open any more
LockCommit(w) ==
  /\ pc[w] = "commit"
  /\ IF transaction = <<>>
       THEN IF attempt[w] < retries
              THEN LockRetry(w)
              ELSE LockRefuse(w, "lock_error")
       ELSE LockFinish(w, IF lockCheck[w] THEN "locked" ELSE "lock_failed")
  /\ transaction' = <<>>
  /\ UNCHANGED <<settings, judge_team_assignments, scores, locked_at>>

\* the queued ROLLBACK runs: it undoes whatever transaction is open on the
\* connection; with none open its error is dropped by the empty callback
LockRollback(w) ==
  /\ pc[w] \in {"rollback", "retry"}
  /\ IF transaction # <<>>
       THEN /\ judge_team_assignments' = transaction[1].rows
            /\ locked_at' = transaction[1].locked
       ELSE UNCHANGED <<judge_team_assignments, locked_at>>
  /\ transaction' = <<>>
  /\ IF pc[w] = "retry"
       THEN /\ pc' = [pc EXCEPT ![w] = "begin"]
            /\ UNCHANGED <<locals, attempt, lockCheck, response, lockResults>>
       ELSE LockFinish(w, lockResults[w])
  /\ UNCHANGED <<settings, scores>>

\* markAssignmentCompleted of the tests, called once the judge's lock call
\* was answered: one UPDATE on the same connection
CompleteLocked(j, t, r) ==
  /\ HasAssignment(judge_team_assignments, j, t, r)
  /\ \A w \in Workers :
       pc[w] = "idle" \/ <<judgeEmail[w], teamName[w], round[w]>> # <<j, t, r>>
  /\ judge_team_assignments' =
       markAssignmentCompleted(judge_team_assignments, j, t, r)
  /\ UNCHANGED <<settings, scores, pc, locals, response, locking>>

\* the step of call w is not a retry beyond the attempts explored
WithinAttempts(w) ==
  \/ attempt[w] < MaxAttempts
  \/ pc[w] = "begin" /\ transaction = <<>>
  \/ pc[w] = "commit" /\ transaction # <<>>

\* lock calls in flight together (simulateConcurrentJudgeRequests) and
\* completions of the rows
InitLock == Init /\ judging_locked = FALSE

NextLock ==
  \/ \E w \in Workers, j \in Judges, t \in teams : Receive(w, j) /\ LockCall(w, j, t)
  \/ \E w \in Workers : WithinAttempts(w) /\ LockBegin(w) /\ UNCHANGED started
  \/ \E w \in Workers : LockCount(w) /\ UNCHANGED started
  \/ \E w \in Workers : LockCheckOther(w) /\ UNCHANGED started
  \/ \E w \in Workers : LockUpsert(w) /\ UNCHANGED started
  \/ \E w \in Workers : LockReadBack(w) /\ UNCHANGED started
  \/ \E w \in Workers : WithinAttempts(w) /\ LockCommit(w) /\ UNCHANGED started
  \/ \E w \in Workers : LockRollback(w) /\ UNCHANGED started
  \/ \E j \in Judges, t \in TeamNames, r \in Rounds :
       CompleteLocked(j, t, r) /\ UNCHANGED started

SpecLock == InitLock /\ [][NextLock]_vars

\* every judge of the test locks the same team at once: the calls are all made
\* before the first statement runs (judges.map(... lockTeamForJudgeTest ...));
\* the judges are numbered by their call
targetTeam == 1

InitRace ==
  /\ users = Judges
  /\ teams = TeamNames
  /\ requiredJudgesPerTeam = 2
  /\ current_round = 1
  /\ locked_rounds = {}
  /\ judging_locked = FALSE
  /\ judge_team_assignments = {}
  /\ scores = {}
  /\ pc = [w \in Workers |-> "begin"]
  /\ judgeEmail = [w \in Workers |-> w]
  /\ round = [w \in Workers |-> 1]
  /\ teamName = [w \in Workers |-> targetTeam]
  /\ judgedTeamNames = [w \in Workers |-> {}]
  /\ response = "none"
  /\ started = MaxWorkers
  /\ locked_at = {}
  /\ transaction = <<>>
  /\ attempt = [w \in Workers |-> 0]
  /\ lockCheck = [w \in Workers |-> FALSE]
  /\ lockResults = [w \in Workers |-> "none"]

NextRace ==
  \/ \E w \in Workers : WithinAttempts(w) /\ LockBegin(w) /\ UNCHANGED started
  \/ \E w \in Workers : LockCount(w) /\ UNCHANGED started
  \/ \E w \in Workers : LockCheckOther(w) /\ UNCHANGED started
  \/ \E w \in Workers : LockUpsert(w) /\ UNCHANGED started
  \/ \E w \in Workers : LockReadBack(w) /\ UNCHANGED started
  \/ \E w \in Workers : WithinAttempts(w) /\ LockCommit(w) /\ UNCHANGED started
  \/ \E w \in Workers : LockRollback(w) /\ UNCHANGED started

SpecRace == InitRace /\ [][NextRace]_vars

\* lock calls for one team made one after another, each awaited before the
\* next one, and completions of the rows in between; the statements of a call
\* read and write the rows of its own team only
NextLockSequential ==
  \/ \E j \in users :
       /\ \A w \in Workers : pc[w] = "idle"
       /\ targetTeam \in teams
       /\ LockCall(1, j, targetTeam)
       /\ UNCHANGED started
  \/ LockBegin(1) /\ UNCHANGED started
  \/ LockCount(1) /\ UNCHANGED started
  \/ LockCheckOther(1) /\ UNCHANGED started
  \/ LockUpsert(1) /\ UNCHANGED started
  \/ LockReadBack(1) /\ UNCHANGED started
  \/ LockCommit(1) /\ UNCHANGED started
  \/ LockRollback(1) /\ UNCHANGED started
  \/ \E j \in Judges, t \in TeamNames, r \in Rounds :
       CompleteLocked(j, t, r) /\ UNCHANGED started

SpecLockSequential == InitLock /\ [][NextLockSequential]_vars

\* two calls made together, each retried up to the ceiling of the helper
InitContention ==
  /\ InitLock
  /\ teams = TeamNames
  /\ requiredJudgesPerTeam = MaxRequired

NextContention ==
  \/ \E w \in 1..2 : Receive(w, w) /\ LockCall(w, w, targetTeam)
  \/ \E w \in 1..2 : LockBegin(w) /\ UNCHANGED started
  \/ \E w \in 1..2 : LockCount(w) /\ UNCHANGED started
  \/ \E w \in 1..2 : LockCheckOther(w) /\ UNCHANGED started
  \/ \E w \in 1..2 : LockUpsert(w) /\ UNCHANGED started
  \/ \E w \in 1..2 : LockReadBack(w) /\ UNCHANGED started
  \/ \E w \in 1..2 : LockCommit(w) /\ UNCHANGED started
  \/ \E w \in 1..2 : LockRollback(w) /\ UNCHANGED started

SpecContention == InitContention /\ [][NextContention]_vars

\* ---------------------------------------------------------------- claims

\* rows of judge_team_assignments of a team in a round
RowsOf(t, r) == { x \in judge_team_assignments : x.team_name = t /\ x.round = r }

\* C1: for every (team, round) pair the number of assignment rows never
\* exceeds required-judges-per-team, under any interleaving of GET /next-team
\* requests.
C1_CapacityNeverExceeded ==
  \A t \in TeamNames, r \in Rounds :
    Cardinality(RowsOf(t, r)) <= requiredJudgesPerTeam

\* C2: for every judge and every team there is at most one assignment row
\* across all rounds combined.
C2_OneRowPerJudgeTeam ==
  \A j \in Judges, t \in TeamNames :
    Cardinality({ x \in judge_team_assignments :
                   x.judge_email = j /\ x.team_name = t }) <= 1

\* C3: in one round, with every judge requesting and completing again and
\* again, the system eventually reaches and stays in a state where every team
\* has exactly required-judges-per-team assignment rows.
C3_EventuallyExactlyRequired ==
  <>[](\A t \in teams : Cardinality(RowsOf(t, 1)) = requiredJudgesPerTeam)

\* C4: whenever a round is complete (every team reached the required number
\* of judges, the condition of the all_complete answer), every team has
\* exactly required-judges-per-team distinct judges with a completed
\* assignment in that round.
C4_CompleteRoundAllCompleted ==
  \A r \in Rounds :
    allTeamsComplete(r) =>
      \A t \in teams :
        Cardinality({ x.judge_email : x \in { y \in RowsOf(t, r) : y.completed = 1 } })
          = requiredJudgesPerTeam

\* C5: for every judge and team, score rows by that judge for that team exist
\* for at most one round.
C5_ScoresInOneRoundOnly ==
  \A j \in Judges, t \in TeamNames :
    Cardinality({ x \in scores : x.judge_email = j /\ x.team_name = t }) <= 1

\* C6: if the judge has an assignment row for a team in some round r1, the
\* selector run for that judge in any round r2 does not return that team.
C6_NeverAgainAcrossRounds ==
  \A j \in Judges, r2 \in Rounds :
    LET next == getNextTeamForJudge(j, r2)
    IN \A t \in TeamNames, r1 \in Rounds :
         HasAssignment(judge_team_assignments, j, t, r1) => next # t

\* C6 witness: a handler of round 2 ran the selector for a judge who holds a
\* round-1 row of a team that is below the requirement in round 2, and the
\* selector returned something else.
C6_Witness ==
  \E w \in Workers, t \in teams :
    /\ pc[w] \in {"stats", "doublecheck"}
    /\ round[w] = 2
    /\ HasAssignment(judge_team_assignments, judgeEmail[w], t, 1)
    /\ Cardinality(RowsOf(t, 2)) < requiredJudgesPerTeam
    /\ teamName[w] # t
    /\ getNextTeamForJudge(judgeEmail[w], 2) # t

\* C7: the selector never returns a team whose number of rows in the round
\* is already at or above required-judges-per-team.
C7_NeverReturnsFullTeam ==
  \A j \in Judges, r \in Rounds :
    LET t == getNextTeamForJudge(j, r)
    IN t # NoTeam => Cardinality(RowsOf(t, r)) < requiredJudgesPerTeam

\* C7 witness: a handler got a candidate while another team, never assigned
\* to its judge, was full in the round.
C7_Witness ==
  \E w \in Workers, t \in teams :
    /\ pc[w] = "doublecheck"
    /\ teamName[w] = getNextTeamForJudge(judgeEmail[w], round[w])
    /\ t # teamName[w]
    /\ Cardinality(RowsOf(t, round[w])) >= requiredJudgesPerTeam
    /\ \A r \in Rounds : ~HasAssignment(judge_team_assignments, judgeEmail[w], t, r)

\* teams the judge may still get in the round: never assigned to the judge, not full
Eligible(j, r) ==
  { t \in teams :
      /\ \A q \in Rounds : ~HasAssignment(judge_team_assignments, j, t, q)
      /\ Cardinality(RowsOf(t, r)) < requiredJudgesPerTeam }

\* C8: the selector returns exactly the eligible team that is least in the
\* order (round judge count ascending, then name ascending), and no
\* candidate exactly when no team is eligible.
C8_LeastEligibleTeam ==
  \A j \in Judges, r \in Rounds :
    LET res == getNextTeamForJudge(j, r)
        eligible == Eligible(j, r)
        count == [ t \in teams |-> Cardinality(RowsOf(t, r)) ]
    IN IF eligible = {} THEN res = NoTeam
       ELSE /\ res \in eligible
            /\ \A u \in eligible :
                 \/ count[res] < count[u]
                 \/ count[res] = count[u] /\ res <= u

\* C8 witness: a handler got the later-named team because the earlier-named
\* eligible team had more judges.
C8_Witness ==
  \E w \in Workers, u \in teams :
    /\ pc[w] = "doublecheck"
    /\ teamName[w] = getNextTeamForJudge(judgeEmail[w], round[w])
    /\ u \in Eligible(judgeEmail[w], round[w])
    /\ u < teamName[w]
    /\ Cardinality(RowsOf(u, round[w])) > Cardinality(RowsOf(teamName[w], round[w]))

\* C9: the steps of getNextTeamForJudge and getJudgeQueueStats leave the
\* assignment rows, the team list and the current round unchanged.
C9_ReadsChangeNothing ==
  [][\A w \in Workers :
       (pc[w] \in {"judged", "counts", "stats"} /\ pc'[w] # pc[w])
         => UNCHANGED <<judge_team_assignments, teams, current_round>>]_vars

\* C9 witness: a request ran both reads over a non-empty assignment table
\* (the selector found no candidate, the statistics decided the answer).
C9_Witness ==
  /\ judge_team_assignments # {}
  /\ response \in {"all_complete", "no_more_for_you"}

\* C10: after a no-candidate result the request answers all_complete if and
\* only if every team has at least required-judges-per-team rows in the
\* round, and no_more_for_you otherwise.
C10_AllCompleteIffEveryTeamFull ==
  [][\A w \in Workers :
       (pc[w] = "stats" /\ pc'[w] = "idle") =>
         /\ response' \in {"all_complete", "no_more_for_you"}
         /\ response' = "all_complete" <=>
              \A t \in teams : Cardinality(RowsOf(t, round[w])) >= requiredJudgesPerTeam]_vars

\* C10 witness: 1 team, 1 judge acting, required = 2: the judge was assigned
\* the team and the next request answered no_more_for_you.
C10_Witness ==
  \E j \in Judges :
    /\ teams = {1}
    /\ requiredJudgesPerTeam = 2
    /\ judge_team_assignments = {AssignmentRow(j, 1, 1, 0)}
    /\ response = "no_more_for_you"

\* teams of the assignment rows of a judge, any round
TeamsOf(j) == { x.team_name : x \in { y \in judge_team_assignments : y.judge_email = j } }

\* the selector step of the single judge returns the teams one by one in
\* name order (team k at the k-th call) and no candidate after the last one
SingleJudgeOrder ==
  [][(pc[SingleJudge] = "counts" /\ pc'[SingleJudge] # "counts") =>
       /\ TeamsOf(SingleJudge) = 1..Cardinality(TeamsOf(SingleJudge))
       /\ teamName'[SingleJudge] =
            IF TeamsOf(SingleJudge) = teams THEN NoTeam
            ELSE Cardinality(TeamsOf(SingleJudge)) + 1]_vars

\* C11 as stated: one judge, N teams, any required-judges-per-team: the calls
\* return the N teams once each in name order and the call after the last
\* team answers all_complete.
C11_SingleJudgeThenAllComplete ==
  /\ SingleJudgeOrder
  /\ [][(pc[SingleJudge] = "stats" /\ pc'[SingleJudge] = "idle") =>
          response' = "all_complete"]_vars

\* C11 amended: the calls return the N teams once each in name order; the
\* call after the last team answers all_complete when one judge per team is
\* required and no_more_for_you when more are required.
C11_SingleJudgeSequence ==
  /\ SingleJudgeOrder
  /\ [][(pc[SingleJudge] = "stats" /\ pc'[SingleJudge] = "idle") =>
          /\ TeamsOf(SingleJudge) = teams
          /\ response' = IF requiredJudgesPerTeam = 1 THEN "all_complete"
                         ELSE "no_more_for_you"]_vars

\* C11 witness: two teams, two judges required: the judge holds both teams
\* and the call after them was answered no_more_for_you.
C11_Witness ==
  /\ teams = {1, 2}
  /\ requiredJudgesPerTeam = 2
  /\ TeamsOf(SingleJudge) = {1, 2}
  /\ response = "no_more_for_you"

\* C12: requests made one after another in one round: once a request was
\* answered all_complete (every team had required-judges-per-team rows), the
\* next request to finish, by any judge, is answered all_complete and leaves
\* the assignment rows as they were.
C12_SurplusJudgesGetAllComplete ==
  [][(response = "all_complete" /\ pc[1] # "idle" /\ pc'[1] = "idle") =>
       /\ response' = "all_complete"
       /\ judge_team_assignments' = judge_team_assignments]_vars

\* C13: with an empty team list the selector returns no candidate for every
\* judge and round, no assignment row exists, and every GET /next-team that
\* consults the queue ends with no_more_for_you or all_complete, never with
\* an assignment.
C13_EmptyTeamList ==
  /\ [](teams = {} =>
         /\ \A j \in Judges, r \in Rounds : getNextTeamForJudge(j, r) = NoTeam
         /\ judge_team_assignments = {})
  /\ [][\A w \in Workers :
          (teams = {} /\ pc[w] \in {"counts", "stats", "doublecheck", "assign"}
                      /\ pc'[w] # pc[w]) =>
            /\ pc'[w] \in {"stats", "idle"}
            /\ pc'[w] = "idle" => response' \in {"no_more_for_you", "all_complete"}]_vars

\* C13 witness: a request over an empty team list was answered.
C13_Witness ==
  /\ teams = {}
  /\ response \in {"no_more_for_you", "all_complete"}

\* C14: markAssignmentCompleted applied twice to the same (judge, team,
\* round) gives the store that one application gives: the row is completed,
\* no row is added or lost; and a POST /submit that completes an already
\* completed row leaves the rows as they are and answers as the first did.
C14_MarkCompletedIdempotent ==
  /\ [](\A j \in Judges, t \in TeamNames, r \in Rounds :
          LET once == markAssignmentCompleted(judge_team_assignments, j, t, r)
          IN /\ markAssignmentCompleted(once, j, t, r) = once
             /\ Cardinality(once) = Cardinality(judge_team_assignments)
             /\ \A x \in once :
                  (x.judge_email = j /\ x.team_name = t /\ x.round = r)
                    => x.completed = 1)
  /\ [][\A w \in Workers :
          (/\ pc[w] = "mark"
           /\ pc'[w] = "idle"
           /\ AssignmentRow(judgeEmail[w], teamName[w], round[w], 1)
                \in judge_team_assignments) =>
            /\ judge_team_assignments' = judge_team_assignments
            /\ response' = "submitted"]_vars

\* C14 witness: a POST /submit is about to call markAssignmentCompleted for
\* a row that an earlier call completed.
C14_Witness ==
  \E w \in Workers :
    /\ pc[w] = "mark"
    /\ AssignmentRow(judgeEmail[w], teamName[w], round[w], 1) \in judge_team_assignments

\* C15: the steps of POST /submit never change the number of assignment
\* rows: the only change is completed = 1 on the existing row of the
\* request's (judge, team, round); the request is answered whatever the
\* number of rows of the team, and with no row for the triple the rows stay
\* as they are.
C15_CompleteKeepsRowCount ==
  [][\A w \in Workers :
       (pc[w] \in {"roundlock", "save", "mark"} /\ pc'[w] # pc[w]) =>
         /\ Cardinality(judge_team_assignments') = Cardinality(judge_team_assignments)
         /\ \A x \in judge_team_assignments :
              \/ x \in judge_team_assignments'
              \/ /\ pc[w] = "mark"
                 /\ KeyOf(x) = <<judgeEmail[w], teamName[w], round[w]>>
                 /\ [x EXCEPT !.completed = 1] \in judge_team_assignments'
         /\ pc[w] = "mark" => response' = "submitted"
         /\ ~HasAssignment(judge_team_assignments, judgeEmail[w], teamName[w], round[w])
              => judge_team_assignments' = judge_team_assignments]_vars

\* C15 witness: a submit was answered and completed the row of a team that
\* has reached required-judges-per-team in the round.
C15_Witness ==
  \E x \in judge_team_assignments :
    /\ x.completed = 1
    /\ Cardinality(RowsOf(x.team_name, x.round)) >= requiredJudgesPerTeam
    /\ response = "submitted"

\* C17: assignment rows are never deleted: over every step the row of each
\* (judge, team, round) is still there, so the number of judges of a team in
\* a round never decreases.
C17_RowsNeverDeleted ==
  [][/\ \A x \in judge_team_assignments :
          \E y \in judge_team_assignments' : KeyOf(y) = KeyOf(x)
     /\ \A t \in TeamNames, r \in Rounds :
          Cardinality({ y \in judge_team_assignments' : y.team_name = t /\ y.round = r })
            >= Cardinality(RowsOf(t, r))]_vars

JudgedInOtherRound(j, t, r) ==
  \/ \E x \in judge_team_assignments :
       x.judge_email = j /\ x.team_name = t /\ x.round # r
  \/ \E s \in scores :
       s.judge_email = j /\ s.team_name = t /\ s.round # r

\* C19: a POST /submit for a team the judge has an assignment or a score for
\* in a different round saves no score, completes no row and is not answered
\* as submitted.
C19_CompleteRefusedOnOtherRound ==
  [][\A w \in Workers :
       ( /\ pc[w] \in {"save", "mark"}
         /\ pc'[w] # pc[w]
         /\ JudgedInOtherRound(judgeEmail[w], teamName[w], round[w]) ) =>
         /\ scores' = scores
         /\ judge_team_assignments' = judge_team_assignments
         /\ pc'[w] = "idle" => response' # "submitted"]_vars

\* C20: with the lock calls, every (team, round) has at most one active
\* lock (completed = 0 and locked_at set) among the committed rows at every
\* moment, and a call is answered as locked only when no other judge holds
\* an active lock on the team in the round.
C20_OneActiveLock ==
  /\ [](transaction = <<>> =>
          \A t \in TeamNames, r \in Rounds :
            Cardinality(ActiveLocks(judge_team_assignments, locked_at, t, r)) <= 1)
  /\ [][\A w \in Workers :
          (pc[w] = "commit" /\ pc'[w] = "idle" /\ response' = "locked") =>
            ~existingLock(judge_team_assignments', locked_at',
                          judgeEmail[w], teamName[w], round[w])]_vars

\* C16: a completed assignment row stays completed: no step leaves a row
\* of the same (judge, team, round) that is not completed, whether the step
\* is an insert of the queue, a lock call on the triple or a completion.
C16_CompletedStaysCompleted ==
  [][\A x \in judge_team_assignments :
       x.completed = 1 =>
         [x EXCEPT !.completed = 0] \notin judge_team_assignments']_vars

\* C21: when more than two judges lock the same empty team at once and the
\* team needs 2 judges, then once every call has returned exactly 2 of them
\* were answered locked and every other one already_locked or team_full.
C21_ExactlyTwoLocked ==
  (\A w \in Workers : pc[w] = "idle") =>
    /\ Cardinality({ w \in Workers : lockResults[w] = "locked" }) = 2
    /\ \A w \in Workers :
         lockResults[w] \in {"locked", "already_locked", "team_full"}

\* C22: a lock call never retries beyond the ceiling of 10 retries, and a call
\* that gives up at the ceiling is answered lock_failed as a result value.
C22_BoundedRetriesThenLockFailed ==
  /\ [](\A w \in Workers : attempt[w] <= retries)
  /\ [][\A w \in Workers :
          ( /\ attempt[w] = retries
            /\ \/ pc[w] = "begin" /\ transaction # <<>>
               \/ pc[w] = "commit" /\ transaction = <<>>
            /\ pc'[w] # pc[w] ) =>
            lockResults'[w] = "lock_failed"]_vars

\* C23: of two judges whose requests selected the same team with one slot
\* left only one is assigned it: a request whose candidate has become full by
\* the insert of another judge is not answered assigned for that team.
C23_StaleCandidateNotAssigned ==
  [][\A w \in Workers :
       ( /\ pc[w] = "assign"
         /\ pc'[w] = "idle"
         /\ ~HasAssignment(judge_team_assignments, judgeEmail[w], teamName[w], round[w])
         /\ Cardinality(RowsOf(teamName[w], round[w])) >= requiredJudgesPerTeam ) =>
         response' # "assigned"]_vars

\* C24: lock calls that overlap on the shared connection behave as if run one
\* after another, so that in no committed state a (team, round) holds more
\* rows than required-judges-per-team.
C24_LockCapacity ==
  transaction = <<>> =>
    \A t \in TeamNames, r \in Rounds :
      judge_count(judge_team_assignments, t, r) <= requiredJudgesPerTeam

HeldBefore(w) ==
  /\ pc[w] # "idle"
  /\ transaction # <<>>
  /\ AssignmentRow(judgeEmail[w], teamName[w], round[w], 0) \in transaction[1].rows
  /\ <<judgeEmail[w], teamName[w], round[w]>> \in transaction[1].locked

\* C26: a judge who holds an uncompleted lock on (team, round) and calls the
\* lock again for the same triple is answered locked and the rows stay as they
\* were.
C26_RelockAnswersLocked ==
  [][\A w \in Workers :
       ( HeldBefore(w) /\ pc'[w] # pc[w] ) =>
         /\ judge_team_assignments' = transaction[1].rows
         /\ lockResults'[w] # lockResults[w] => lockResults'[w] = "locked"]_vars

\* C26, amended: such a call is never answered already_locked and leaves the
\* rows and their locks as they were; it is answered locked when the team
\* holds fewer rows than required, the judge's own row counted, and team_full
\* otherwise.
C26_RelockLockedOrTeamFull ==
  [][\A w \in Workers :
       ( HeldBefore(w) /\ pc'[w] # pc[w] ) =>
         /\ judge_team_assignments' = transaction[1].rows
         /\ locked_at' = transaction[1].locked
         /\ lockResults'[w] # "already_locked"
         /\ lockResults'[w] # lockResults[w] =>
              lockResults'[w] =
                IF judge_count(transaction[1].rows, teamName[w], round[w])
                     < requiredJudgesPerTeam
                  THEN "locked" ELSE "team_full"]_vars

\* the second call of a lock holder has run its upsert and its read-back and is
\* about to be answered locked
C26_Witness ==
  \E w \in Workers :
    /\ HeldBefore(w)
    /\ pc[w] = "commit"
    /\ lockCheck[w]
    /\ judge_team_assignments = transaction[1].rows

\* C27: a lock call answered team_full, already_locked or lock_failed leaves
\* the rows and their locks as they were, its ROLLBACK included, and a call
\* answered locked leaves an uncompleted row of (judge, team, round) with its
\* lock timestamp set.
C27_RefusalChangesNothing ==
  [][\A w \in Workers :
       /\ ( /\ pc'[w] # pc[w]
            /\ \/ pc[w] = "rollback"
               \/ lockResults'[w] # lockResults[w] /\ lockResults'[w] = "lock_failed" ) =>
            /\ judge_team_assignments' = judge_team_assignments
            /\ locked_at' = locked_at
            /\ transaction # <<>> => judge_team_assignments = transaction[1].rows
       /\ ( lockResults'[w] # lockResults[w] /\ lockResults'[w] = "locked" ) =>
            /\ AssignmentRow(judgeEmail[w], teamName[w], round[w], 0)
                 \in judge_team_assignments'
            /\ <<judgeEmail[w], teamName[w], round[w]>> \in locked_at']_vars

\* number of judges of team t in round 1
LoadOf(t) == Cardinality(RowsOf(t, 1))

\* C28: from an empty table in one round, after any sequence of awaited
\* GET /next-team calls, the largest and the smallest per-team judge counts
\* differ by at most 1.
C28_LoadBalanced ==
  \A t1 \in teams, t2 \in teams : LoadOf(t1) - LoadOf(t2) <= 1

\* C28, amended: the counts differ by at most 1 when at most 2 judges are
\* required per team.
C28_LoadBalancedUpToTwo ==
  requiredJudgesPerTeam <= 2 => C28_LoadBalanced

\* three judges were given teams and the counts differ: one team is full with
\* 2 judges while another has 1
C28_Witness ==
  /\ requiredJudgesPerTeam = 2
  /\ Cardinality({ x.judge_email : x \in judge_team_assignments }) = 3
  /\ \E t1 \in teams, t2 \in teams : LoadOf(t1) = 2 /\ LoadOf(t2) = 1

\* C29: while judging_locked is set no handler writes: no GET /next-team
\* inserts an assignment row and no POST /submit saves a score or marks a
\* completion, and the two tables keep their rows.
C29_NoWriteWhileLocked ==
  [][judging_locked =>
       /\ \A w \in Workers :
            pc[w] \in {"assign", "save", "mark"} => pc'[w] = pc[w]
       /\ judge_team_assignments' \subseteq judge_team_assignments
       /\ scores' \subseteq scores]_vars

\* C30: every completed assignment row has a score row of the same (judge,
\* team, round), and a POST /submit whose saveScore failed marks nothing.
C30_CompletedHasScore ==
  /\ [](\A x \in judge_team_assignments :
          x.completed = 1 =>
            ScoreRow(x.judge_email, x.team_name, x.round) \in scores)
  /\ [][\A w \in Workers :
          ( pc[w] = "save" /\ pc'[w] = "idle" ) =>
            /\ response' = "submit_failed"
            /\ judge_team_assignments' = judge_team_assignments]_vars

\* a POST /submit has saved the score and marked the row of the queue
C30_Witness ==
  /\ response = "submitted"
  /\ \E x \in judge_team_assignments :
       /\ x.completed = 1
       /\ ScoreRow(x.judge_email, x.team_name, x.round) \in scores

====
